---------------------------- MODULE Spec2Model ----------------------------
(***************************************************************************)
(* Message bubbles of the embeddable chat widget: BotBubble.tsx and        *)
(* AgentReasoningBubble.tsx.                                               *)
(*                                                                         *)
(* A string is a sequence of characters (one-character strings; the two    *)
(* emoji of the source are the atoms "{hourglass}" and "{check}", and the  *)
(* rule text of the override stylesheet is the atom "{css}").  The string  *)
(* methods of the source (trim, startsWith, includes, replace, slice,      *)
(* lastIndexOf, the regular expressions) are operators on such sequences.  *)
(***************************************************************************)
EXTENDS Integers, Sequences, FiniteSets, TLC

(***************************************************************************)
(* Bounds of the model.                                                    *)
(***************************************************************************)
MaxMid == 1
MaxPending == 2
MaxArtifacts == 2
MaxSources == 3
MaxClicks == 2
MaxCopies == 2

(***************************************************************************)
(* JavaScript string primitives.                                           *)
(***************************************************************************)
WhiteSpace == {" ", "\n", "\t"}

Upper == <<"A","B","C","D","E","F","G","H","I","J","K","L","M",
           "N","O","P","Q","R","S","T","U","V","W","X","Y","Z">>

LowerOf == <<"a","b","c","d","e","f","g","h","i","j","k","l","m",
             "n","o","p","q","r","s","t","u","v","w","x","y","z">>

ToLowerChar(c) ==
  IF \E i \in 1..26 : Upper[i] = c
    THEN LowerOf[CHOOSE i \in 1..26 : Upper[i] = c]
    ELSE c

toLowerCase(s) == [i \in 1..Len(s) |-> ToLowerChar(s[i])]

IsLetter(c) == \E i \in 1..26 : Upper[i] = c \/ LowerOf[i] = c

\* s.slice(from): the characters after the first `from` ones
sliceFrom(s, from) == SubSeq(s, from + 1, Len(s))

\* s.slice(0, to)
sliceTo(s, to) == SubSeq(s, 1, to)

\* p occurs in s at 0-based index i
OccursAt(s, p, i) ==
  /\ i >= 0
  /\ i + Len(p) <= Len(s)
  /\ SubSeq(s, i + 1, i + Len(p)) = p

startsWith(s, p) == OccursAt(s, p, 0)

includes(s, p) == \E i \in 0..Len(s) : OccursAt(s, p, i)

\* s.indexOf(p), -1 when absent
indexOf(s, p) ==
  IF includes(s, p)
    THEN CHOOSE i \in 0..Len(s) :
           OccursAt(s, p, i) /\ \A j \in 0..(i - 1) : ~OccursAt(s, p, j)
    ELSE -1

\* s.lastIndexOf(p), -1 when absent
lastIndexOf(s, p) ==
  IF includes(s, p)
    THEN CHOOSE i \in 0..Len(s) :
           OccursAt(s, p, i) /\ \A j \in (i + 1)..Len(s) : ~OccursAt(s, p, j)
    ELSE -1

\* s.trim()
trim(s) ==
  LET NonWs == {i \in 1..Len(s) : s[i] \notin WhiteSpace}
  IN IF NonWs = {} THEN <<>>
     ELSE SubSeq(s, CHOOSE i \in NonWs : \A j \in NonWs : i <= j,
                    CHOOSE i \in NonWs : \A j \in NonWs : j <= i)

\* s.replace(p, r) with a string pattern: the first occurrence only.  No
\* replacement text of the source holds a "$", so r is inserted literally.
replaceFirst(s, p, r) ==
  IF includes(s, p)
    THEN sliceTo(s, indexOf(s, p)) \o r \o sliceFrom(s, indexOf(s, p) + Len(p))
    ELSE s

\* s.replace(/p/g, r) for a literal pattern p: every occurrence, found left
\* to right without overlap.
RECURSIVE replaceAll(_, _, _)
replaceAll(s, p, r) ==
  IF Len(p) > 0 /\ includes(s, p)
    THEN sliceTo(s, indexOf(s, p)) \o r
         \o replaceAll(sliceFrom(s, indexOf(s, p) + Len(p)), p, r)
    ELSE s

\* the concatenation of a sequence of strings
RECURSIVE Flatten(_)
Flatten(ss) == IF ss = <<>> THEN <<>> ELSE Head(ss) \o Flatten(Tail(ss))

\* the sequences over S of length at most n
SeqUpTo(S, n) == UNION {[1..k -> S] : k \in 0..n}

(***************************************************************************)
(* String literals of the source.                                          *)
(***************************************************************************)
Doctype == <<"<","!","D","O","C","T","Y","P","E">>
HtmlOpen == <<"<","h","t","m","l">>
ClosingBody == <<"<","/","b","o","d","y",">">>
ClosingHtml == <<"<","/","h","t","m","l",">">>
ScriptMarker == <<"<","s","c","r","i","p","t">>
CanvasMarker == <<"<","c","a","n","v","a","s">>
ChartJsLower == <<"c","h","a","r","t",".","j","s">>
ChartJsUpper == <<"C","h","a","r","t",".","j","s">>
D3Marker == <<"d","3",".","j","s">>
PlotlyMarker == <<"p","l","o","t","l","y">>

(***************************************************************************)
(* Content classification (identical in both components).                  *)
(***************************************************************************)
\* /^\s*<html[\s>]/i
HtmlTagRegex(s) ==
  \E k \in 0..Len(s) :
    /\ \A i \in 1..k : s[i] \in WhiteSpace
    /\ k + 6 <= Len(s)
    /\ toLowerCase(SubSeq(s, k + 1, k + 5)) = HtmlOpen
    /\ s[k + 6] \in WhiteSpace \cup {">"}

isFullHTMLDocument(c) ==
  LET trimmed == trim(c)
  IN \/ startsWith(trimmed, Doctype)
     \/ startsWith(trimmed, HtmlOpen)
     \/ HtmlTagRegex(trimmed)

isCompleteHTMLDocument(c) ==
  LET hasClosingBody == includes(c, ClosingBody)
      hasClosingHtml == includes(c, ClosingHtml)
  IN hasClosingBody /\ hasClosingHtml

needsIframeRenderingNoScript(c) ==
  LET hasCanvas == includes(c, CanvasMarker)
      hasChartJS == includes(c, ChartJsLower) \/ includes(c, ChartJsUpper)
      hasInteractiveLib == includes(c, D3Marker) \/ includes(c, PlotlyMarker)
  IN hasCanvas \/ hasChartJS \/ hasInteractiveLib

needsIframeRendering(c) ==
  LET hasScript == includes(c, ScriptMarker)
      hasCanvas == includes(c, CanvasMarker)
      hasChartJS == includes(c, ChartJsLower) \/ includes(c, ChartJsUpper)
      hasInteractiveLib == includes(c, D3Marker) \/ includes(c, PlotlyMarker)
  IN hasScript \/ hasCanvas \/ hasChartJS \/ hasInteractiveLib


(***************************************************************************)
(* The platform's HTML parser, as far as the components use it:            *)
(*   new DOMParser().parseFromString(content, 'text/html').body            *)
(* and its textContent and innerHTML.  The scan follows the HTML parsing   *)
(* algorithm for the markup the model feeds it: tags without attributes,   *)
(* the structural tags html, head and body, the raw-text elements script   *)
(* and style, ordinary elements (div, span, b, ...), the character         *)
(* references &lt; &gt; &amp;, and <!...> declarations.                    *)
(*   st.inBody  the body element has been opened                           *)
(*   st.text    body.textContent so far                                    *)
(*   st.html    body.innerHTML so far                                      *)
(*   st.stack   open elements inside body, innermost first                 *)
(***************************************************************************)
RawTextElements == {<<"s","c","r","i","p","t">>, <<"s","t","y","l","e">>}
TagHtml == <<"h","t","m","l">>
TagHead == <<"h","e","a","d">>
TagBody == <<"b","o","d","y">>

ParseStart == [inBody |-> FALSE, text |-> <<>>, html |-> <<>>, stack |-> <<>>]

\* 1-based position of the first ">" at or after i, 0 when there is none
TagClose(s, i) ==
  IF \E j \in i..Len(s) : s[j] = ">"
    THEN CHOOSE j \in i..Len(s) : s[j] = ">" /\ \A k \in i..(j - 1) : s[k] # ">"
    ELSE 0

\* the tag name starting at i: up to white space, "/" or ">", in lower case
TagName(s, i) ==
  LET Stop == {j \in i..Len(s) : s[j] \in WhiteSpace \cup {"/", ">"}}
      last == IF Stop = {} THEN Len(s)
              ELSE (CHOOSE j \in Stop : \A k \in Stop : j <= k) - 1
  IN toLowerCase(SubSeq(s, i, last))

EscapeChar(c) ==
  CASE c = "&" -> <<"&","a","m","p",";">>
    [] c = "<" -> <<"&","l","t",";">>
    [] c = ">" -> <<"&","g","t",";">>
    [] OTHER -> <<c>>

\* a character token in the data state
AppendChar(st, c) ==
  IF st.inBody
    THEN [st EXCEPT !.text = @ \o <<c>>, !.html = @ \o EscapeChar(c)]
    ELSE IF c \in WhiteSpace
      THEN st
      ELSE [st EXCEPT !.inBody = TRUE, !.text = <<c>>, !.html = EscapeChar(c)]

\* the end tags of the n innermost open elements, innermost first
RECURSIVE CloseTags(_, _)
CloseTags(stack, n) ==
  IF n = 0 \/ stack = <<>> THEN <<>>
  ELSE <<"<", "/">> \o Head(stack) \o <<">">> \o CloseTags(Tail(stack), n - 1)

StartTag(st, name) ==
  IF name \in {TagHtml, TagHead} THEN st
  ELSE IF name = TagBody THEN [st EXCEPT !.inBody = TRUE]
  ELSE [st EXCEPT !.inBody = TRUE,
                  !.html = @ \o <<"<">> \o name \o <<">">>,
                  !.stack = <<name>> \o @]

EndTag(st, name) ==
  IF name \in {TagBody, TagHtml} THEN [st EXCEPT !.inBody = TRUE]
  ELSE IF st.inBody /\ \E k \in 1..Len(st.stack) : st.stack[k] = name
    THEN LET k == CHOOSE k \in 1..Len(st.stack) :
                    st.stack[k] = name /\ \A j \in 1..(k - 1) : st.stack[j] # name
         IN [st EXCEPT !.html = @ \o CloseTags(st.stack, k),
                       !.stack = SubSeq(@, k + 1, Len(@))]
    ELSE st

\* 1-based position of the "</name" that ends a raw-text element opened
\* before i, 0 when the element is never closed
RawEnd(s, i, name) ==
  LET IsEnd(j) == /\ j + 1 + Len(name) <= Len(s)
                  /\ s[j] = "<" /\ s[j + 1] = "/"
                  /\ toLowerCase(SubSeq(s, j + 2, j + 1 + Len(name))) = name
                  /\ j + 2 + Len(name) <= Len(s)
                  /\ s[j + 2 + Len(name)] \in WhiteSpace \cup {"/", ">"}
  IN IF \E j \in i..Len(s) : IsEnd(j)
       THEN CHOOSE j \in i..Len(s) : IsEnd(j) /\ \A k \in i..(j - 1) : ~IsEnd(k)
       ELSE 0

\* a raw-text element (script, style) whose start tag ended just before i:
\* its text is taken verbatim; opened before the body it belongs to head
RawElement(st, s, i, name) ==
  LET e == RawEnd(s, i, name)
      raw == IF e = 0 THEN SubSeq(s, i, Len(s)) ELSE SubSeq(s, i, e - 1)
      gt == IF e = 0 THEN 0 ELSE TagClose(s, e)
      next == IF e = 0 \/ gt = 0 THEN Len(s) + 1 ELSE gt + 1
      st2 == IF st.inBody
               THEN [st EXCEPT !.text = @ \o raw,
                               !.html = @ \o <<"<">> \o name \o <<">">> \o raw
                                          \o <<"<", "/">> \o name \o <<">">>]
               ELSE st
  IN <<st2, next>>

RECURSIVE Scan(_, _, _)
Scan(s, i, st) ==
  IF i > Len(s)
    THEN [st EXCEPT !.html = @ \o CloseTags(st.stack, Len(st.stack)),
                    !.stack = <<>>]
  ELSE IF s[i] = "<" /\ i < Len(s) /\ IsLetter(s[i + 1])
    THEN LET name == TagName(s, i + 1)
             gt == TagClose(s, i)
         IN IF gt = 0 THEN Scan(s, Len(s) + 1, st)
            ELSE IF name \in RawTextElements
              THEN LET r == RawElement(st, s, gt + 1, name)
                   IN Scan(s, r[2], r[1])
              ELSE Scan(s, gt + 1, StartTag(st, name))
  ELSE IF s[i] = "<" /\ i + 1 < Len(s) /\ s[i + 1] = "/" /\ IsLetter(s[i + 2])
    THEN LET gt == TagClose(s, i)
         IN IF gt = 0 THEN Scan(s, Len(s) + 1, st)
            ELSE Scan(s, gt + 1, EndTag(st, TagName(s, i + 2)))
  ELSE IF s[i] = "<" /\ i < Len(s) /\ s[i + 1] \in {"!", "/", "?"}
    THEN LET gt == TagClose(s, i)
         IN IF gt = 0 THEN Scan(s, Len(s) + 1, st) ELSE Scan(s, gt + 1, st)
  ELSE IF OccursAt(s, <<"&","l","t",";">>, i - 1)
    THEN Scan(s, i + 4, AppendChar(st, "<"))
  ELSE IF OccursAt(s, <<"&","g","t",";">>, i - 1)
    THEN Scan(s, i + 4, AppendChar(st, ">"))
  ELSE IF OccursAt(s, <<"&","a","m","p",";">>, i - 1)
    THEN Scan(s, i + 5, AppendChar(st, "&"))
  ELSE Scan(s, i + 1, AppendChar(st, s[i]))

parseFromString(c) == Scan(c, 1, ParseStart)

\* doc.body?.textContent
bodyTextContent(c) == parseFromString(c).text

\* doc.body?.innerHTML
bodyInnerHTML(c) == parseFromString(c).html


(***************************************************************************)
(* More string literals of the source.                                     *)
(***************************************************************************)
LoadingGlyph == <<" ", "{hourglass}">>
LoadingPlaceholder ==
  <<"L","o","a","d","i","n","g"," ","c","o","n","t","e","n","t",".",".","."," ","{hourglass}">>
ClosingHead == <<"<","/","h","e","a","d",">">>
ClosingStyle == <<"<","/","s","t","y","l","e",">">>
OpeningHead == <<"<","h","e","a","d",">">>
MapKeyPlaceholder == <<"G","O","O","G","L","E","_","M","A","P","_","K","E","Y">>
MapKeyLiteral == <<"a","b","c">>
cssOverride ==
  <<"\n">>
  \o <<"<","s","t","y","l","e"," ","i","d","=","\"","f","l","o","w","i","s","e","-",
       "i","f","r","a","m","e","-","o","v","e","r","r","i","d","e","\"",">">>
  \o <<"{css}">> \o ClosingStyle \o <<"\n">>
AgentPrefixOpen == <<"*","*","{check}"," ">>
AgentPrefixHtml == <<"*","*"," ","<","b","r","/",">","<","b","r","/",">">>
AgentPrefixMarkdown == <<"*","*"," ","\n","\n">>

InitialHeight == 600
MinHeight == 500
defaultFeedbackColor == "#3B81F6"

(***************************************************************************)
(* State.                                                                  *)
(***************************************************************************)
VARIABLES
  content,           \* props.message.message / props.agentMessage
  renderHTML,        \* props.renderHTML: "true", "false" or "undefined"
  agentRenderHTML,   \* props.renderHTML of the AgentReasoningBubble
  agentName,         \* props.agentName
  messageRating,     \* props.message.rating
  fileAnnotations,   \* props.fileAnnotations: the file names
  sourceDocuments,   \* props.message.sourceDocuments
  markedSanitize,    \* the sanitize option of the Marked library (global)
  bot,               \* the BotBubble instance: its surface, iframe and tasks
  agent,             \* the AgentReasoningBubble instance
  rating,            \* BotBubble signals
  feedbackId,
  showFeedbackContentDialog,
  thumbsUpColor,
  thumbsDownColor,
  localStorage,      \* the rating cached under `${chatflowid}_EXTERNAL`
  inflight,          \* requests sent and not yet answered
  unhandled,         \* handlers whose promise rejected with no handler
  logged,            \* handlers that logged an error to the console
  downloads,         \* file names for which a download link was clicked
  artifacts,         \* props.message.artifacts / props.agentArtifacts
  botArtifacts,      \* what BotBubble.renderArtifacts draws for each artifact
  agentArtifacts,    \* the result of agentReasoningArtifacts
  artifactsDone,     \* the components that have drawn their artifacts
  sourceBubbles,     \* the sources BotBubble draws: removeDuplicateURL's result
  ttsProps,          \* props.message.id / messageId, isTTSEnabled, isTTSLoading,
                     \* isTTSPlaying, handleTTSClick, handleTTSStop
  lastTTSClick,      \* the last click on the TTS button: props seen, calls made
  ttsClicks,         \* the clicks on the TTS button so far
  copiedMessage,     \* the signal behind 'Copied!'
  clipboard,         \* what navigator.clipboard holds
  copyWrites,        \* the texts of the writeText promises not yet settled
  copyTimers,        \* the 2-second timers armed and not yet fired
  copies             \* the clicks on the copy button so far

propVars == <<content, renderHTML, agentRenderHTML, agentName, messageRating,
              fileAnnotations, sourceDocuments>>
feedbackVars == <<rating, feedbackId, showFeedbackContentDialog, thumbsUpColor,
                  thumbsDownColor, localStorage, inflight, unhandled, logged,
                  downloads>>
artifactVars == <<artifacts, botArtifacts, agentArtifacts, artifactsDone,
                  sourceBubbles>>
controlVars == <<ttsProps, lastTTSClick, ttsClicks, copiedMessage, clipboard,
                 copyWrites, copyTimers, copies>>
vars == <<propVars, markedSanitize, bot, agent, feedbackVars, artifactVars,
          controlVars>>

Truthy(flag) == flag = "true"

NoEl == [via |-> "none", producer |-> "none", text |-> <<>>, decor |-> {}]
NoIframe == [present |-> FALSE, height |-> 0, opacity |-> 0, heightSets |-> 0]
NotWritten == <<"{not written}">>
\* resizeIframe has not run: nothing was measured
NoMeasure == [access |-> "none", heights |-> {}]

\* an instance before its component function has run
NewInstance ==
  [phase |-> "new", strategy |-> "none", el |-> NoEl, iframe |-> NoIframe,
   writeTask |-> "none", resizeTask |-> "none", written |-> NotWritten,
   sanitizeUsed |-> "none", escaped |-> FALSE, warned |-> FALSE,
   resizeRuns |-> 0, measure |-> NoMeasure, faults |-> {}]

(***************************************************************************)
(* The Marked library: Marked.parse(src) under the current global options. *)
(* Its output is kept symbolic: the surface records that it holds the      *)
(* result of Marked.parse of `text` and the sanitize option in force.      *)
(***************************************************************************)
MarkedEl(src, decor) ==
  [via |-> "innerHTML", producer |-> "Marked.parse", text |-> src, decor |-> decor]

\* the sanitize option Marked.parse runs under
SanitizeInForce == IF markedSanitize THEN "true" ELSE "false"

\* Marked.setOptions({ isNoP: true, sanitize: ... })
sanitizeOption(flag) == IF flag # "undefined" THEN ~Truthy(flag) ELSE TRUE

(***************************************************************************)
(* extractTextFromIncompleteHTML; parserThrows: the parser raised.         *)
(***************************************************************************)
extractTextFromIncompleteHTMLNoTrim(c, parserThrows) ==
  IF parserThrows THEN LoadingPlaceholder
  ELSE LET bodyText == bodyTextContent(c)
       IN IF Len(trim(bodyText)) > 0
            THEN bodyText \o LoadingGlyph
            ELSE LoadingPlaceholder

extractTextFromIncompleteHTML(c, parserThrows) ==
  IF parserThrows THEN LoadingPlaceholder
  ELSE LET bodyText == bodyTextContent(c)
       IN IF Len(trim(bodyText)) > 0
            THEN trim(bodyText) \o LoadingGlyph
            ELSE LoadingPlaceholder

(***************************************************************************)
(* The branch each component takes.                                        *)
(***************************************************************************)
setBotMessageRefBranchNoIsolationCheck(flag, c) ==
  IF Truthy(flag) /\ isFullHTMLDocument(c) /\ isCompleteHTMLDocument(c)
    THEN "CompleteSimpleHTML"
  ELSE IF Truthy(flag) /\ isFullHTMLDocument(c) /\ ~isCompleteHTMLDocument(c)
    THEN "IncompleteHTML"
  ELSE "PlainMarkdown"

setBotMessageRefBranch(flag, c) ==
  IF Truthy(flag) /\ isFullHTMLDocument(c) /\ isCompleteHTMLDocument(c)
     /\ needsIframeRendering(c)
    THEN "CompleteRichHTML"
  ELSE IF Truthy(flag) /\ isFullHTMLDocument(c) /\ isCompleteHTMLDocument(c)
          /\ ~needsIframeRendering(c)
    THEN "CompleteSimpleHTML"
  ELSE IF Truthy(flag) /\ isFullHTMLDocument(c) /\ ~isCompleteHTMLDocument(c)
    THEN "IncompleteHTML"
  ELSE "PlainMarkdown"

onMountBranchSimpleAsMarkdown(flag, c) ==
  IF Truthy(flag) /\ isFullHTMLDocument(c) /\ isCompleteHTMLDocument(c)
     /\ needsIframeRendering(c)
    THEN "CompleteRichHTML"
  ELSE IF Truthy(flag) /\ isFullHTMLDocument(c) /\ ~isCompleteHTMLDocument(c)
    THEN "IncompleteHTML"
  ELSE "PlainMarkdown"

onMountBranch(flag, c) ==
  IF Truthy(flag) /\ isFullHTMLDocument(c) /\ isCompleteHTMLDocument(c)
     /\ needsIframeRendering(c)
    THEN "CompleteRichHTML"
  ELSE IF Truthy(flag) /\ isFullHTMLDocument(c) /\ isCompleteHTMLDocument(c)
          /\ ~needsIframeRendering(c)
    THEN "CompleteSimpleHTML"
  ELSE IF Truthy(flag) /\ isFullHTMLDocument(c) /\ ~isCompleteHTMLDocument(c)
    THEN "IncompleteHTML"
  ELSE "PlainMarkdown"

(***************************************************************************)
(* The synchronous part of a render.  markedThrows / parserThrows: the     *)
(* markdown parser / the DOM parser raised during this call.               *)
(***************************************************************************)
BotSimpleDecor == {"textColor", "linkTarget"}
BotMarkdownDecor == {"textColor", "preColor", "inlineCodeColor", "linkTarget"}
AgentDecor == {"linkTarget"}

\* the iframe as created: height reserved, hidden
CreatedIframe ==
  [present |-> TRUE, height |-> InitialHeight, opacity |-> 0, heightSets |-> 0]

\* doc.body?.innerHTML || messageContent
bodyContentOf(c) == IF bodyInnerHTML(c) # <<>> THEN bodyInnerHTML(c) ELSE c

\* what raised during a render: the DOM parser where the branch parses the
\* content, Marked.parse where the branch (or its catch) calls it
Raised(strategy, markedThrows, parserThrows) ==
  CASE strategy = "CompleteRichHTML" -> {}
    [] strategy = "CompleteSimpleHTML" ->
         IF ~parserThrows THEN {}
         ELSE IF markedThrows THEN {"DOMParser", "Marked.parse"}
         ELSE {"DOMParser"}
    [] strategy = "IncompleteHTML" -> IF parserThrows THEN {"DOMParser"} ELSE {}
    [] OTHER -> IF markedThrows THEN {"Marked.parse"} ELSE {}

BotRendered(inst, flag, c, markedThrows, parserThrows) ==
  LET strategy == setBotMessageRefBranch(flag, c)
      base == [inst EXCEPT !.phase = "mounted", !.strategy = strategy,
                           !.faults = Raised(strategy, markedThrows, parserThrows)]
  IN CASE strategy = "CompleteRichHTML" ->
            [base EXCEPT !.el = [via |-> "appendChild", producer |-> "iframe",
                                 text |-> <<>>, decor |-> {}],
                         !.iframe = CreatedIframe,
                         !.writeTask = "pending"]
       [] strategy = "CompleteSimpleHTML" ->
            IF ~parserThrows
              THEN [base EXCEPT !.el = [via |-> "innerHTML",
                                        producer |-> "body.innerHTML",
                                        text |-> bodyContentOf(c),
                                        decor |-> BotSimpleDecor]]
            ELSE IF ~markedThrows
              THEN [base EXCEPT !.warned = TRUE, !.el = MarkedEl(c, {}),
                                !.sanitizeUsed = SanitizeInForce]
            ELSE [base EXCEPT !.warned = TRUE, !.escaped = TRUE]
       [] strategy = "IncompleteHTML" ->
            [base EXCEPT !.el = [via |-> "textContent",
                                 producer |-> "extractTextFromIncompleteHTML",
                                 text |-> extractTextFromIncompleteHTML(c, parserThrows),
                                 decor |-> {}]]
       [] OTHER ->
            IF ~markedThrows
              THEN [base EXCEPT !.el = MarkedEl(c, BotMarkdownDecor),
                                !.sanitizeUsed = SanitizeInForce]
              ELSE [base EXCEPT !.escaped = TRUE]

AgentRendered(inst, flag, c, name, markedThrows, parserThrows) ==
  LET strategy == onMountBranch(flag, c)
      base == [inst EXCEPT !.phase = "mounted", !.strategy = strategy,
                           !.faults = Raised(strategy, markedThrows, parserThrows)]
  IN CASE strategy = "CompleteRichHTML" ->
            [base EXCEPT !.el = [via |-> "appendChild", producer |-> "iframe",
                                 text |-> <<>>, decor |-> {}],
                         !.iframe = CreatedIframe,
                         !.writeTask = "pending"]
       [] strategy = "CompleteSimpleHTML" ->
            IF ~parserThrows
              THEN [base EXCEPT !.el = [via |-> "innerHTML",
                                        producer |-> "body.innerHTML",
                                        text |-> AgentPrefixOpen \o name \o AgentPrefixHtml
                                                 \o bodyContentOf(c),
                                        decor |-> AgentDecor]]
            ELSE IF ~markedThrows
              THEN [base EXCEPT !.warned = TRUE,
                                !.el = MarkedEl(AgentPrefixOpen \o name
                                                \o AgentPrefixMarkdown \o c, {}),
                                !.sanitizeUsed = SanitizeInForce]
            ELSE [base EXCEPT !.warned = TRUE, !.escaped = TRUE]
       [] strategy = "IncompleteHTML" ->
            [base EXCEPT !.el = [via |-> "innerHTML",
                                 producer |-> "extractTextFromIncompleteHTML",
                                 text |-> AgentPrefixOpen \o name \o AgentPrefixHtml
                                          \o extractTextFromIncompleteHTML(c, parserThrows),
                                 decor |-> {}]]
       [] OTHER ->
            IF ~markedThrows
              THEN [base EXCEPT !.el = MarkedEl(AgentPrefixOpen \o name
                                                \o AgentPrefixMarkdown \o c, AgentDecor),
                                !.sanitizeUsed = SanitizeInForce]
              ELSE [base EXCEPT !.escaped = TRUE]


(***************************************************************************)
(* The deferred tasks of the CompleteRichHTML strategy.                    *)
(***************************************************************************)
injectCssAfterFirstStyle(c) ==
  IF includes(c, ClosingHead)
    THEN replaceFirst(c, ClosingHead, cssOverride \o ClosingHead)
  ELSE IF includes(c, ClosingStyle)
    THEN LET firstStyleIndex == indexOf(c, ClosingStyle)
         IN sliceTo(c, firstStyleIndex + 8) \o cssOverride
            \o sliceFrom(c, firstStyleIndex + 8)
  ELSE IF includes(c, OpeningHead)
    THEN replaceFirst(c, OpeningHead, OpeningHead \o cssOverride)
  ELSE cssOverride \o c

\* the override stylesheet placed into the content
injectCss(c) ==
  IF includes(c, ClosingHead)
    THEN replaceFirst(c, ClosingHead, cssOverride \o ClosingHead)
  ELSE IF includes(c, ClosingStyle)
    THEN LET lastStyleIndex == lastIndexOf(c, ClosingStyle)
         IN sliceTo(c, lastStyleIndex + 8) \o cssOverride
            \o sliceFrom(c, lastStyleIndex + 8)
  ELSE IF includes(c, OpeningHead)
    THEN replaceFirst(c, OpeningHead, OpeningHead \o cssOverride)
  ELSE cssOverride \o c

replaceMapKeyFirstOnly(m) ==
  IF includes(m, MapKeyPlaceholder)
    THEN replaceFirst(m, MapKeyPlaceholder, MapKeyLiteral)
    ELSE m

\* the placeholder of the maps key replaced by the key
replaceMapKey(m) ==
  IF includes(m, MapKeyPlaceholder)
    THEN replaceAll(m, MapKeyPlaceholder, MapKeyLiteral)
    ELSE m

modifiedContent(c) == replaceMapKey(injectCss(c))

WriteTaskDoneResizeAnyway(inst, c, docAccess, writeThrows) ==
  LET done == [inst EXCEPT !.writeTask = "done"]
  IN CASE docAccess = "throws" -> [done EXCEPT !.escaped = TRUE]
       [] docAccess = "null" -> [done EXCEPT !.resizeTask = "pending"]
       [] OTHER ->
            IF writeThrows
              THEN [done EXCEPT !.escaped = TRUE]
              ELSE [done EXCEPT !.written = modifiedContent(c),
                                !.resizeTask = "pending"]

\* The zero-delay task.  docAccess: what
\*   iframe.contentDocument || iframe.contentWindow?.document
\* gives ("ok", "null", or "throws"); writeThrows: open/write/close raised.
WriteTaskDone(inst, c, docAccess, writeThrows) ==
  LET done == [inst EXCEPT !.writeTask = "done"]
  IN CASE docAccess = "throws" -> [done EXCEPT !.escaped = TRUE]
       [] docAccess = "null" -> done
       [] OTHER ->
            IF writeThrows
              THEN [done EXCEPT !.escaped = TRUE]
              ELSE [done EXCEPT !.written = modifiedContent(c),
                                !.resizeTask = "pending"]

Max(S) == CHOOSE x \in S : \A y \in S : y <= x

resizeIframeNoFloor(iframe, access, bodyScroll, bodyOffset, htmlScroll, htmlOffset) ==
  CASE access = "ok" ->
         [iframe EXCEPT
            !.height = Max({bodyScroll, bodyOffset, htmlScroll, htmlOffset}),
            !.heightSets = @ + 1,
            !.opacity = 1]
    [] access = "throws" -> [iframe EXCEPT !.opacity = 1]
    [] OTHER -> iframe

\* resizeIframe.  access: "ok", "noDocument" (iframeDoc is null), "noBody"
\* (iframeDoc.body is null) or "throws"; the four measured heights.
resizeIframe(iframe, access, bodyScroll, bodyOffset, htmlScroll, htmlOffset) ==
  CASE access = "ok" ->
         [iframe EXCEPT
            !.height = Max({bodyScroll, bodyOffset, htmlScroll, htmlOffset, MinHeight}),
            !.heightSets = @ + 1,
            !.opacity = 1]
    [] access = "throws" -> [iframe EXCEPT !.opacity = 1]
    [] OTHER -> iframe

\* the fixed-duration task: resizeIframe runs, with what it found
ResizeTaskDone(inst, access, bs, bo, hs, ho) ==
  [inst EXCEPT !.resizeTask = "done",
               !.resizeRuns = @ + 1,
               !.measure = [access |-> access,
                            heights |-> IF access = "ok" THEN {bs, bo, hs, ho} ELSE {}],
               !.iframe = resizeIframe(@, access, bs, bo, hs, ho)]

DocAccess == {"ok", "null", "throws"}
ResizeAccess == {"ok", "noDocument", "noBody", "throws"}
Heights == {0, 640}

(***************************************************************************)
(* Actions of a render.                                                    *)
(***************************************************************************)
\* the component function of BotBubble up to its JSX
BotBubble ==
  /\ bot.phase = "new"
  /\ bot' = [bot EXCEPT !.phase = "created"]
  /\ markedSanitize' = sanitizeOption(renderHTML)
  /\ UNCHANGED <<propVars, controlVars, agent, feedbackVars, artifactVars>>

\* the ref callback of the message span, rendered when the message is not empty
setBotMessageRef ==
  /\ bot.phase = "created"
  /\ content # <<>>
  /\ \E markedThrows \in BOOLEAN, parserThrows \in BOOLEAN :
       LET r == BotRendered(bot, renderHTML, content, markedThrows, parserThrows)
           ratingSet == ~r.escaped /\ messageRating # ""
       IN /\ bot' = IF r.escaped THEN r
                    ELSE [r EXCEPT !.buttons = fileAnnotations]
          /\ rating' = IF ratingSet THEN messageRating ELSE rating
          /\ thumbsUpColor' = IF ratingSet /\ messageRating = "THUMBS_UP"
                                THEN "#006400" ELSE thumbsUpColor
          /\ thumbsDownColor' = IF ratingSet /\ messageRating = "THUMBS_DOWN"
                                  THEN "#8B0000" ELSE thumbsDownColor
  /\ UNCHANGED <<propVars, controlVars, markedSanitize, agent, feedbackId,
                 showFeedbackContentDialog, localStorage, inflight, unhandled,
                 logged, downloads, artifactVars>>

BotWriteTask ==
  /\ bot.writeTask = "pending"
  /\ \E docAccess \in DocAccess, writeThrows \in BOOLEAN :
       bot' = WriteTaskDone(bot, content, docAccess, writeThrows)
  /\ UNCHANGED <<propVars, controlVars, markedSanitize, agent, feedbackVars, artifactVars>>

BotResizeTask ==
  /\ bot.resizeTask = "pending"
  /\ \E access \in ResizeAccess, bs \in Heights, bo \in Heights,
        hs \in Heights, ho \in Heights :
       bot' = ResizeTaskDone(bot, access, bs, bo, hs, ho)
  /\ UNCHANGED <<propVars, controlVars, markedSanitize, agent, feedbackVars, artifactVars>>

\* the component function of AgentReasoningBubble
AgentReasoningBubble ==
  /\ agent.phase = "new"
  /\ agent' = [agent EXCEPT !.phase = "created"]
  /\ markedSanitize' = sanitizeOption(agentRenderHTML)
  /\ UNCHANGED <<propVars, controlVars, bot, feedbackVars, artifactVars>>

\* onMount; the span exists only when the message is not empty
onMount ==
  /\ agent.phase = "created"
  /\ \E markedThrows \in BOOLEAN, parserThrows \in BOOLEAN :
       agent' = IF content = <<>>
                  THEN [agent EXCEPT !.phase = "mounted"]
                  ELSE AgentRendered(agent, agentRenderHTML, content, agentName,
                                     markedThrows, parserThrows)
  /\ UNCHANGED <<propVars, controlVars, markedSanitize, bot, feedbackVars, artifactVars>>

AgentWriteTask ==
  /\ agent.writeTask = "pending"
  /\ \E docAccess \in DocAccess, writeThrows \in BOOLEAN :
       agent' = WriteTaskDone(agent, content, docAccess, writeThrows)
  /\ UNCHANGED <<propVars, controlVars, markedSanitize, bot, feedbackVars, artifactVars>>

AgentResizeTask ==
  /\ agent.resizeTask = "pending"
  /\ \E access \in ResizeAccess, bs \in Heights, bo \in Heights,
        hs \in Heights, ho \in Heights :
       agent' = ResizeTaskDone(agent, access, bs, bo, hs, ho)
  /\ UNCHANGED <<propVars, controlVars, markedSanitize, bot, feedbackVars, artifactVars>>

(***************************************************************************)
(* Message contents the render is checked on.                              *)
(***************************************************************************)
TextHi == <<"h","i">>
TagHtmlOpen == <<"<","h","t","m","l",">">>
DoctypeHtml == <<"<","!","D","O","C","T","Y","P","E"," ","h","t","m","l",">">>
TagScriptOpen == <<"<","s","c","r","i","p","t",">">>

\* how a message starts: as a full document or not
Leads ==
  {<<>>, TextHi, DoctypeHtml, TagHtmlOpen, <<" ">> \o TagHtmlOpen,
   <<"<","H","T","M","L",">">>, <<"<","H","T","M","L","x",">">>}

\* how it ends
Closes == {<<>>, ClosingBody, ClosingHtml, ClosingBody \o ClosingHtml}

\* what marks a document as needing isolation, or nothing, or text
ClassifyMids ==
  {<<>>, TextHi, TagScriptOpen, <<"<","c","a","n","v","a","s",">">>,
   ChartJsLower, ChartJsUpper, D3Marker, PlotlyMarker}

ClassifyContents ==
  {l \o m \o c : l \in Leads, m \in ClassifyMids, c \in Closes}

\* documents still streaming: opened, with markup, text and character
\* references, and not closed
IncompletePieces ==
  {TextHi, <<" ">>, <<" ","h","i"," ">>, <<"<","b","o","d","y",">">>, <<"<","d","i","v",">">>,
   <<"&","l","t",";","s","c","r","i","p","t","&","g","t",";">>,
   <<"&","l","t",";","h","t","m","l">>, TagScriptOpen}

IncompleteContents ==
  {l \o Flatten(m) \o c : l \in {TagHtmlOpen, DoctypeHtml},
                          m \in SeqUpTo(IncompletePieces, MaxMid),
                          c \in {<<>>, ClosingBody}}

\* complete documents with a script, the placeholder of the maps key (whole
\* and in halves) and the places the stylesheet may go
RichPieces ==
  {MapKeyPlaceholder, <<"G","O","O","G","L","E","_">>, <<"M","A","P","_","K","E","Y">>,
   OpeningHead, ClosingHead, ClosingStyle}

RichContents ==
  {TagHtmlOpen \o Flatten(m) \o TagScriptOpen \o ClosingBody \o ClosingHtml :
     m \in SeqUpTo(RichPieces, MaxMid + 1)}

Contents == ClassifyContents \cup IncompleteContents \cup RichContents

RenderFlags == {"true", "false", "undefined"}

(***************************************************************************)
(* Feedback, download and the local cache of the rating (BotBubble).       *)
(*                                                                         *)
(* sendFeedbackQuery, updateFeedbackQuery and sendFileDownloadQuery are    *)
(* imported from '@/queries/sendMessageQuery': a request descriptor in, a  *)
(* promise of a response out.  A request is put in flight by the handler   *)
(* and answered later; the answer resumes the handler after its await.     *)
(***************************************************************************)
messageId == "m1"

\* what is stored under the key: nothing, text that JSON.parse rejects, or
\* chat details with their other fields (chatId) and the chat history
StorageAbsent == [state |-> "absent", chatId |-> "", chatHistory |-> <<>>]
StorageUnparseable == [state |-> "unparseable", chatId |-> "", chatHistory |-> <<>>]
StorageWith(ids) ==
  [state |-> "parsed",
   chatId |-> "chat1",
   chatHistory |-> [i \in 1..Len(ids) |->
                      [messageId |-> ids[i], message |-> "hi", rating |-> ""]]]

saveToLocalStorageEveryMessage(ls, r) ==
  IF ls.state = "absent" THEN ls
  ELSE IF ls.state = "unparseable" THEN ls
  ELSE LET messages == ls.chatHistory
           Found == {i \in 1..Len(messages) : messages[i].messageId = messageId}
       IN IF Found = {} THEN ls
          ELSE [ls EXCEPT !.chatHistory =
                  [i \in 1..Len(messages) |-> [messages[i] EXCEPT !.rating = r]]]

\* saveToLocalStorage(rating) on the value stored under `${chatflowid}_EXTERNAL`
saveToLocalStorage(ls, r) ==
  IF ls.state = "absent" THEN ls
  ELSE IF ls.state = "unparseable" THEN ls
  ELSE LET messages == ls.chatHistory
           Found == {i \in 1..Len(messages) : messages[i].messageId = messageId}
       IN IF Found = {} THEN ls
          ELSE LET i == CHOOSE i \in Found : \A j \in Found : i <= j
               IN [ls EXCEPT !.chatHistory[i].rating = r]

\* the answers of the query functions
Outcomes == {"data", "dataNoId", "noData", "reject"}

Request(kind, r, fileName) == [kind |-> kind, rating |-> r, fileName |-> fileName]

RemoveAt(q, i) == SubSeq(q, 1, i - 1) \o SubSeq(q, i + 1, Len(q))

\* the thumb buttons and the dialog exist once the JSX of the bubble has been
\* built: with the message span and its ref callback when the message is not
\* empty, without them when it is
Rendered ==
  IF content = <<>>
    THEN bot.phase = "created"
    ELSE bot.phase = "mounted" /\ ~bot.escaped

thumbsUpShown == rating = "" \/ rating = "THUMBS_UP"
thumbsDownShownAlways == rating \in {"", "THUMBS_UP", "THUMBS_DOWN"}
thumbsDownShown == rating = "" \/ rating = "THUMBS_DOWN"

\* isDisabled of the two buttons
thumbsUpDisabled == rating = "THUMBS_UP"
thumbsDownDisabled == rating = "THUMBS_DOWN"

\* sendFeedbackQuery and updateFeedbackQuery: the request goes in flight
sendQuery(kind, r, fileName) ==
  /\ Len(inflight) < MaxPending
  /\ inflight' = Append(inflight, Request(kind, r, fileName))

\* onThumbsUpClick up to its await
onThumbsUpClick ==
  /\ Rendered
  /\ thumbsUpShown
  /\ IF rating = ""
       THEN sendQuery("feedback", "THUMBS_UP", "")
       ELSE UNCHANGED inflight
  /\ UNCHANGED <<propVars, controlVars, markedSanitize, bot, agent, rating, feedbackId,
                 showFeedbackContentDialog, thumbsUpColor, thumbsDownColor,
                 localStorage, unhandled, logged, downloads, artifactVars>>

\* onThumbsDownClick up to its await
onThumbsDownClick ==
  /\ Rendered
  /\ thumbsDownShown
  /\ IF rating = ""
       THEN sendQuery("feedback", "THUMBS_DOWN", "")
       ELSE UNCHANGED inflight
  /\ UNCHANGED <<propVars, controlVars, markedSanitize, bot, agent, rating, feedbackId,
                 showFeedbackContentDialog, thumbsUpColor, thumbsDownColor,
                 localStorage, unhandled, logged, downloads, artifactVars>>

\* the handler that sent a feedback request
FeedbackHandler(r) ==
  IF r = "THUMBS_UP" THEN "onThumbsUpClick" ELSE "onThumbsDownClick"

FeedbackAnsweredDialogAlways(i, outcome) ==
  /\ i \in 1..Len(inflight)
  /\ inflight[i].kind = "feedback"
  /\ inflight' = RemoveAt(inflight, i)
  /\ LET r == inflight[i].rating
     IN CASE outcome \in {"data", "dataNoId"} ->
               /\ rating' = r
               /\ feedbackId' = IF outcome = "data" THEN "fb1" ELSE ""
               /\ showFeedbackContentDialog' = TRUE
               /\ thumbsUpColor' = IF r = "THUMBS_UP" THEN "#006400" ELSE thumbsUpColor
               /\ thumbsDownColor' = IF r = "THUMBS_DOWN" THEN "#8B0000" ELSE thumbsDownColor
               /\ localStorage' = saveToLocalStorage(localStorage, r)
               /\ UNCHANGED unhandled
          [] outcome = "noData" ->
               /\ showFeedbackContentDialog' = TRUE
               /\ UNCHANGED <<rating, feedbackId, thumbsUpColor, thumbsDownColor,
                              localStorage, unhandled>>
          [] OTHER ->
               /\ unhandled' = unhandled \cup {FeedbackHandler(r)}
               /\ UNCHANGED <<rating, feedbackId, showFeedbackContentDialog,
                              thumbsUpColor, thumbsDownColor, localStorage>>
  /\ UNCHANGED <<propVars, controlVars, markedSanitize, bot, agent, logged, downloads,
                 artifactVars>>

\* onThumbsUpClick / onThumbsDownClick after the await: request i answered
FeedbackAnswered(i, outcome) ==
  /\ i \in 1..Len(inflight)
  /\ inflight[i].kind = "feedback"
  /\ inflight' = RemoveAt(inflight, i)
  /\ LET r == inflight[i].rating
     IN CASE outcome \in {"data", "dataNoId"} ->
               /\ rating' = r
               /\ feedbackId' = IF outcome = "data" THEN "fb1" ELSE ""
               /\ showFeedbackContentDialog' = TRUE
               /\ thumbsUpColor' = IF r = "THUMBS_UP" THEN "#006400" ELSE thumbsUpColor
               /\ thumbsDownColor' = IF r = "THUMBS_DOWN" THEN "#8B0000" ELSE thumbsDownColor
               /\ localStorage' = saveToLocalStorage(localStorage, r)
               /\ UNCHANGED unhandled
          [] outcome = "noData" ->
               UNCHANGED <<rating, feedbackId, showFeedbackContentDialog,
                           thumbsUpColor, thumbsDownColor, localStorage, unhandled>>
          [] OTHER ->
               /\ unhandled' = unhandled \cup {FeedbackHandler(r)}
               /\ UNCHANGED <<rating, feedbackId, showFeedbackContentDialog,
                              thumbsUpColor, thumbsDownColor, localStorage>>
  /\ UNCHANGED <<propVars, controlVars, markedSanitize, bot, agent, logged, downloads,
                 artifactVars>>

FeedbackResponse ==
  \E i \in 1..Len(inflight), outcome \in Outcomes : FeedbackAnswered(i, outcome)

\* submitFeedbackContent up to its await; the dialog calls it
submitFeedbackContent ==
  /\ Rendered
  /\ showFeedbackContentDialog
  /\ sendQuery("update", "", "")
  /\ UNCHANGED <<propVars, controlVars, markedSanitize, bot, agent, rating, feedbackId,
                 showFeedbackContentDialog, thumbsUpColor, thumbsDownColor,
                 localStorage, unhandled, logged, downloads, artifactVars>>

\* submitFeedbackContent after the await
UpdateAnswered(i, outcome) ==
  /\ i \in 1..Len(inflight)
  /\ inflight[i].kind = "update"
  /\ inflight' = RemoveAt(inflight, i)
  /\ CASE outcome \in {"data", "dataNoId"} ->
            /\ feedbackId' = ""
            /\ showFeedbackContentDialog' = FALSE
            /\ UNCHANGED unhandled
       [] outcome = "noData" ->
            UNCHANGED <<feedbackId, showFeedbackContentDialog, unhandled>>
       [] OTHER ->
            /\ unhandled' = unhandled \cup {"submitFeedbackContent"}
            /\ UNCHANGED <<feedbackId, showFeedbackContentDialog>>
  /\ UNCHANGED <<propVars, controlVars, markedSanitize, bot, agent, rating, thumbsUpColor,
                 thumbsDownColor, localStorage, logged, downloads, artifactVars>>

UpdateResponse ==
  \E i \in 1..Len(inflight), outcome \in Outcomes : UpdateAnswered(i, outcome)

\* onClose of the dialog
onClose ==
  /\ Rendered
  /\ showFeedbackContentDialog
  /\ showFeedbackContentDialog' = FALSE
  /\ UNCHANGED <<propVars, controlVars, markedSanitize, bot, agent, rating, feedbackId,
                 thumbsUpColor, thumbsDownColor, localStorage, inflight,
                 unhandled, logged, downloads, artifactVars>>

\* downloadFile up to its await: a click on the button of a file annotation
downloadFile ==
  /\ Rendered
  /\ \E b \in 1..Len(bot.buttons) : sendQuery("download", "", bot.buttons[b])
  /\ UNCHANGED <<propVars, controlVars, markedSanitize, bot, agent, rating, feedbackId,
                 showFeedbackContentDialog, thumbsUpColor, thumbsDownColor,
                 localStorage, unhandled, logged, downloads, artifactVars>>

\* downloadFile after the await: any response, with data or without, is
\* wrapped in a Blob and the link is clicked; a rejection is caught and logged
DownloadAnswered(i, outcome) ==
  /\ i \in 1..Len(inflight)
  /\ inflight[i].kind = "download"
  /\ inflight' = RemoveAt(inflight, i)
  /\ IF outcome = "reject"
       THEN /\ logged' = logged \cup {"downloadFile"}
            /\ UNCHANGED downloads
       ELSE /\ downloads' = downloads \cup
                 {[fileName |-> inflight[i].fileName, hasData |-> outcome # "noData"]}
            /\ UNCHANGED logged
  /\ UNCHANGED <<propVars, controlVars, markedSanitize, bot, agent, rating, feedbackId,
                 showFeedbackContentDialog, thumbsUpColor, thumbsDownColor,
                 localStorage, unhandled, artifactVars>>

DownloadResponse ==
  \E i \in 1..Len(inflight), outcome \in Outcomes : DownloadAnswered(i, outcome)

(***************************************************************************)
(* Artifacts.                                                              *)
(***************************************************************************)
FileStoragePrefix == <<"F","I","L","E","-","S","T","O","R","A","G","E",":",":">>
UploadPath ==
  <<"/","a","p","i","/","v","1","/","g","e","t","-","u","p","l","o","a","d","-",
    "f","i","l","e","?","c","h","a","t","f","l","o","w","I","d","=">>
ChatIdParam == <<"&","c","h","a","t","I","d","=">>
FileNameParam == <<"&","f","i","l","e","N","a","m","e","=">>

\* props.apiHost, props.chatflowid, props.chatId
apiHost == <<"h","t","t","p","s",":","/","/","h">>
chatflowid == <<"f","l","o","w","1">>
chatId == <<"c","h","a","t","1">>

\* `${apiHost}/api/v1/get-upload-file?chatflowId=...&chatId=...&fileName=...`
uploadFileUrl(fileName) ==
  apiHost \o UploadPath \o chatflowid \o ChatIdParam \o chatId
  \o FileNameParam \o fileName

IsImage(item) == item.type = "png" \/ item.type = "jpeg"

\* BotBubble.renderArtifacts(item)
renderArtifacts(item) ==
  IF IsImage(item)
    THEN LET isFileStorage == startsWith(item.data, FileStoragePrefix)
         IN [kind |-> "img",
             data |-> IF isFileStorage
                        THEN uploadFileUrl(replaceFirst(item.data, FileStoragePrefix, <<>>))
                        ELSE item.data]
  ELSE IF item.type = "html"
    THEN [kind |-> "innerHTML", data |-> item.data]
  ELSE [kind |-> "Marked.parse", data |-> item.data]

\* AgentReasoningBubble.agentReasoningArtifacts(artifacts)
agentReasoningArtifacts(as) ==
  [i \in 1..Len(as) |->
     IF IsImage(as[i])
       THEN [as[i] EXCEPT
               !.data = uploadFileUrl(replaceFirst(as[i].data, FileStoragePrefix, <<>>))]
       ELSE as[i]]

\* BotBubble draws props.message.artifacts
BotRenderArtifacts ==
  /\ "bot" \notin artifactsDone
  /\ botArtifacts' = [i \in 1..Len(artifacts) |-> renderArtifacts(artifacts[i])]
  /\ artifactsDone' = artifactsDone \cup {"bot"}
  /\ UNCHANGED <<propVars, controlVars, markedSanitize, bot, agent, feedbackVars, artifacts,
                 agentArtifacts, sourceBubbles>>

\* AgentReasoningBubble maps props.agentArtifacts before drawing them
AgentReasoningArtifacts ==
  /\ "agent" \notin artifactsDone
  /\ agentArtifacts' = agentReasoningArtifacts(artifacts)
  /\ artifactsDone' = artifactsDone \cup {"agent"}
  /\ UNCHANGED <<propVars, controlVars, markedSanitize, bot, agent, feedbackVars, artifacts,
                 botArtifacts, sourceBubbles>>

(***************************************************************************)
(* Source documents (BotBubble).                                           *)
(***************************************************************************)
SchemeChars == {"+", "-", ".", "0", "1", "2", "3", "4", "5", "6", "7", "8", "9"}
SpecialSchemes == {<<"h","t","t","p">>, <<"h","t","t","p","s">>}

\* isValidURL(url): new URL(url) does not throw.  Without a base, the URL
\* parser wants a scheme (a letter, then letters, digits, '+', '-', '.') and
\* a ':'; after a special scheme and its slashes the host is not empty.
isValidURL(url) ==
  \E k \in 1..Len(url) :
    /\ url[k] = ":"
    /\ k > 1
    /\ IsLetter(url[1])
    /\ \A i \in 2..(k - 1) : IsLetter(url[i]) \/ url[i] \in SchemeChars
    /\ toLowerCase(SubSeq(url, 1, k - 1)) \in SpecialSchemes
         => \E i \in (k + 1)..Len(url) : url[i] \notin {"/", "\\"}

\* visitedURLs.includes(url)
Visited(visitedURLs, url) == \E i \in 1..Len(visitedURLs) : visitedURLs[i] = url

RECURSIVE forEachSourceOncePerSource(_, _, _, _)
forEachSourceOncePerSource(docs, i, visitedURLs, newSourceDocuments) ==
  IF i > Len(docs) THEN newSourceDocuments
  ELSE LET source == docs[i]
           url == source.metadata.source
       IN IF ~Visited(visitedURLs, url)
            THEN forEachSourceOncePerSource(docs, i + 1, Append(visitedURLs, url),
                                            Append(newSourceDocuments, source))
            ELSE forEachSourceOncePerSource(docs, i + 1, visitedURLs,
                                            newSourceDocuments)

\* message.sourceDocuments.forEach(...) from the source at position i on
RECURSIVE forEachSource(_, _, _, _)
forEachSource(docs, i, visitedURLs, newSourceDocuments) ==
  IF i > Len(docs) THEN newSourceDocuments
  ELSE LET source == docs[i]
           url == source.metadata.source
       IN IF isValidURL(url) /\ ~Visited(visitedURLs, url)
            THEN forEachSource(docs, i + 1, Append(visitedURLs, url),
                               Append(newSourceDocuments, source))
          ELSE IF ~isValidURL(url)
            THEN forEachSource(docs, i + 1, visitedURLs,
                               Append(newSourceDocuments, source))
          ELSE forEachSource(docs, i + 1, visitedURLs, newSourceDocuments)

removeDuplicateURLOncePerSource(docs) ==
  forEachSourceOncePerSource(docs, 1, <<>>, <<>>)

removeDuplicateURL(docs) == forEachSource(docs, 1, <<>>, <<>>)

\* BotBubble draws a SourceBubble for each source removeDuplicateURL returns
BotSourceBubbles ==
  /\ "sources" \notin artifactsDone
  /\ sourceDocuments # <<>>
  /\ sourceBubbles' = removeDuplicateURL(sourceDocuments)
  /\ artifactsDone' = artifactsDone \cup {"sources"}
  /\ UNCHANGED <<propVars, controlVars, markedSanitize, bot, agent, feedbackVars, artifacts,
                 botArtifacts, agentArtifacts>>

(***************************************************************************)
(* The TTS button (BotBubble).                                             *)
(***************************************************************************)
\* the ids under which the host keeps its TTS flags
TTSKeys == {"i1", "m1"}

\* props.isTTSLoading / props.isTTSPlaying: not given, or the keys set
NoTTSMap == [given |-> FALSE, on |-> {}]
TTSMaps == {NoTTSMap} \cup {[given |-> TRUE, on |-> K] : K \in SUBSET TTSKeys}

\* props.message.id || props.message.messageId
ttsMessageId(p) == IF p.id # "" THEN p.id ELSE p.messageId

\* map?.[key]
Flagged(map, key) == map.given /\ key \in map.on

NoTTSClick == [clicked |-> FALSE, props |-> <<>>, text |-> <<>>, calls |-> <<>>]

\* the button is inside <Show when={isTTSEnabled && (id || messageId)}>
TTSButtonShown == ttsProps.isTTSEnabled /\ ttsMessageId(ttsProps) # ""

ttsOnClickWhileLoading(p, message) ==
  LET id == ttsMessageId(p)
  IN IF id = "" THEN <<>>
     ELSE IF Flagged(p.isTTSPlaying, id)
       THEN IF p.handleTTSStop
              THEN <<[fn |-> "handleTTSStop", messageId |-> id, text |-> <<>>]>>
              ELSE <<>>
     ELSE IF p.handleTTSClick
       THEN <<[fn |-> "handleTTSClick", messageId |-> id, text |-> message]>>
       ELSE <<>>

\* onClick of the TTSButton: the calls it makes into the host, in order
ttsOnClick(p, message) ==
  LET id == ttsMessageId(p)
  IN IF id = "" THEN <<>>
     ELSE IF Flagged(p.isTTSLoading, id) THEN <<>>
     ELSE IF Flagged(p.isTTSPlaying, id)
       THEN IF p.handleTTSStop
              THEN <<[fn |-> "handleTTSStop", messageId |-> id, text |-> <<>>]>>
              ELSE <<>>
     ELSE IF p.handleTTSClick
       THEN <<[fn |-> "handleTTSClick", messageId |-> id, text |-> message]>>
       ELSE <<>>

\* a click on the TTS button
TTSButtonClick ==
  /\ TTSButtonShown
  /\ ttsClicks < MaxClicks
  /\ ttsClicks' = ttsClicks + 1
  /\ lastTTSClick' = [clicked |-> TRUE, props |-> ttsProps, text |-> content,
                      calls |-> ttsOnClick(ttsProps, content)]
  /\ UNCHANGED <<propVars, markedSanitize, bot, agent, feedbackVars, artifactVars,
                 ttsProps, copiedMessage, clipboard, copyWrites, copyTimers, copies>>

\* the host changes its TTS flags (it owns isTTSLoading and isTTSPlaying)
HostTTSState ==
  /\ \E loading \in TTSMaps, playing \in TTSMaps :
       /\ <<loading, playing>> # <<ttsProps.isTTSLoading, ttsProps.isTTSPlaying>>
       /\ ttsProps' = [ttsProps EXCEPT !.isTTSLoading = loading,
                                       !.isTTSPlaying = playing]
  /\ UNCHANGED <<propVars, markedSanitize, bot, agent, feedbackVars, artifactVars,
                 lastTTSClick, ttsClicks, copiedMessage, clipboard, copyWrites,
                 copyTimers, copies>>

(***************************************************************************)
(* The copy button (BotBubble).                                            *)
(***************************************************************************)
\* botMessageElement() ? botMessageElement()?.textContent : '', then || '':
\* the text of the surface as setBotMessageRef left it, '' without a surface
textToCopy ==
  IF bot.el.via = "none"
    THEN [producer |-> "none", text |-> <<>>]
    ELSE [producer |-> bot.el.producer, text |-> bot.el.text]

\* copyMessageToClipboard up to its await: navigator.clipboard.writeText
copyMessageToClipboard ==
  /\ Rendered
  /\ copies < MaxCopies
  /\ copies' = copies + 1
  /\ copyWrites' = Append(copyWrites, textToCopy)
  /\ UNCHANGED <<propVars, markedSanitize, bot, agent, feedbackVars, artifactVars,
                 ttsProps, lastTTSClick, ttsClicks, copiedMessage, clipboard,
                 copyTimers>>

\* copyMessageToClipboard after the await: the write of position i settled;
\* on success the flag is set and a 2-second timer armed, a failure is
\* caught and logged
CopySettled(i, written) ==
  /\ i \in 1..Len(copyWrites)
  /\ copyWrites' = RemoveAt(copyWrites, i)
  /\ IF written
       THEN /\ clipboard' = copyWrites[i]
            /\ copiedMessage' = TRUE
            /\ copyTimers' = copyTimers + 1
            /\ UNCHANGED logged
       ELSE /\ logged' = logged \cup {"copyMessageToClipboard"}
            /\ UNCHANGED <<clipboard, copiedMessage, copyTimers>>
  /\ UNCHANGED <<propVars, markedSanitize, bot, agent, rating, feedbackId,
                 showFeedbackContentDialog, thumbsUpColor, thumbsDownColor,
                 localStorage, inflight, unhandled, downloads, artifactVars,
                 ttsProps, lastTTSClick, ttsClicks, copies>>

CopyResponse ==
  \E i \in 1..Len(copyWrites), written \in BOOLEAN : CopySettled(i, written)

\* the oldest of the armed timers fires: setCopiedMessage(false)
CopyTimerFires ==
  /\ copyTimers > 0
  /\ copyTimers' = copyTimers - 1
  /\ copiedMessage' = FALSE
  /\ UNCHANGED <<propVars, markedSanitize, bot, agent, feedbackVars, artifactVars,
                 ttsProps, lastTTSClick, ttsClicks, clipboard, copyWrites, copies>>

(***************************************************************************)
(* Initial values of the parts of the state.                               *)
(***************************************************************************)
\* no TTS, nothing copied
NoTTSProps ==
  [id |-> "", messageId |-> messageId, isTTSEnabled |-> FALSE,
   isTTSLoading |-> NoTTSMap, isTTSPlaying |-> NoTTSMap,
   handleTTSClick |-> FALSE, handleTTSStop |-> FALSE]

CopyIdle ==
  /\ copiedMessage = FALSE
  /\ clipboard = [producer |-> "host", text |-> <<"{clipboard}">>]
  /\ copyWrites = <<>>
  /\ copyTimers = 0
  /\ copies = 0

ControlsInit ==
  /\ ttsProps = NoTTSProps
  /\ lastTTSClick = NoTTSClick
  /\ ttsClicks = 0
  /\ CopyIdle

InstancesNew ==
  /\ bot = [buttons |-> <<>>] @@ NewInstance
  /\ agent = NewInstance
  /\ markedSanitize = FALSE

SignalsInit ==
  /\ rating = ""
  /\ feedbackId = ""
  /\ showFeedbackContentDialog = FALSE
  /\ thumbsUpColor = defaultFeedbackColor
  /\ thumbsDownColor = defaultFeedbackColor
  /\ inflight = <<>>
  /\ unhandled = {}
  /\ logged = {}
  /\ downloads = {}

NoArtifacts ==
  /\ artifacts = <<>>
  /\ botArtifacts = <<>>
  /\ agentArtifacts = <<>>
  /\ artifactsDone = {}
  /\ sourceBubbles = <<>>

(***************************************************************************)
(* SpecRender: one BotBubble and one AgentReasoningBubble given the same   *)
(* content and the same renderHTML flag.                                   *)
(***************************************************************************)
InitRender ==
  /\ content \in Contents
  /\ renderHTML \in RenderFlags
  /\ agentRenderHTML = renderHTML
  /\ sourceDocuments = <<>>
  /\ agentName = <<"A">>
  /\ messageRating = ""
  /\ fileAnnotations = <<>>
  /\ localStorage = StorageAbsent
  /\ InstancesNew
  /\ SignalsInit
  /\ ControlsInit
  /\ NoArtifacts

NextRender ==
  \/ BotBubble
  \/ setBotMessageRef
  \/ BotWriteTask
  \/ BotResizeTask
  \/ AgentReasoningBubble
  \/ onMount
  \/ AgentWriteTask
  \/ AgentResizeTask

SpecRender == InitRender /\ [][NextRender]_vars

(***************************************************************************)
(* SpecShared: one BotBubble and one AgentReasoningBubble on the same page, *)
(* each given its own renderHTML flag.                                     *)
(***************************************************************************)
SharedContents ==
  {l \o m \o c : l \in {TextHi, TagHtmlOpen}, m \in {TextHi, TagScriptOpen},
                 c \in {<<>>, ClosingBody \o ClosingHtml}}

InitShared ==
  /\ content \in SharedContents
  /\ renderHTML \in RenderFlags
  /\ agentRenderHTML \in RenderFlags
  /\ sourceDocuments = <<>>
  /\ agentName = <<"A">>
  /\ messageRating = ""
  /\ fileAnnotations = <<>>
  /\ localStorage = StorageAbsent
  /\ InstancesNew
  /\ SignalsInit
  /\ ControlsInit
  /\ NoArtifacts

NextShared ==
  \/ BotBubble
  \/ setBotMessageRef
  \/ BotWriteTask
  \/ BotResizeTask
  \/ AgentReasoningBubble
  \/ onMount
  \/ AgentWriteTask
  \/ AgentResizeTask

SpecShared == InitShared /\ [][NextShared]_vars


(***************************************************************************)
(* SpecFeedback: one BotBubble with a plain message, its thumb buttons,    *)
(* its feedback dialog and the button of one file annotation.              *)
(***************************************************************************)
InitFeedback ==
  /\ content \in {TextHi, <<>>}
  /\ renderHTML = "false"
  /\ agentRenderHTML = renderHTML
  /\ sourceDocuments = <<>>
  /\ agentName = <<"A">>
  /\ messageRating \in {"", "THUMBS_UP", "THUMBS_DOWN"}
  /\ fileAnnotations = <<"report.pdf">>
  /\ localStorage \in {StorageAbsent, StorageUnparseable,
                       StorageWith(<<"m0">>), StorageWith(<<"m0", "m1">>),
                       StorageWith(<<"m1", "m1">>)}
  /\ InstancesNew
  /\ SignalsInit
  /\ ControlsInit
  /\ NoArtifacts

NextFeedback ==
  \/ BotBubble
  \/ setBotMessageRef
  \/ onThumbsUpClick
  \/ onThumbsDownClick
  \/ FeedbackResponse
  \/ submitFeedbackContent
  \/ UpdateResponse
  \/ onClose
  \/ downloadFile
  \/ DownloadResponse

SpecFeedback == InitFeedback /\ [][NextFeedback]_vars

(***************************************************************************)
(* SpecArtifacts: both components draw the same list of artifacts.         *)
(***************************************************************************)
FileName == <<"a",".","p","n","g">>

ArtifactData ==
  {FileName, FileStoragePrefix \o FileName,
   FileStoragePrefix \o FileStoragePrefix \o FileName,
   <<"x","/">> \o FileStoragePrefix \o FileName}

ArtifactItems ==
  {[type |-> t, data |-> d] : t \in {"png", "jpeg", "html", "markdown"},
                              d \in ArtifactData}

InitArtifacts ==
  /\ content = TextHi
  /\ renderHTML = "false"
  /\ agentRenderHTML = renderHTML
  /\ sourceDocuments = <<>>
  /\ agentName = <<"A">>
  /\ messageRating = ""
  /\ fileAnnotations = <<>>
  /\ localStorage = StorageAbsent
  /\ InstancesNew
  /\ SignalsInit
  /\ ControlsInit
  /\ artifacts \in SeqUpTo(ArtifactItems, MaxArtifacts)
  /\ botArtifacts = <<>>
  /\ agentArtifacts = <<>>
  /\ artifactsDone = {}
  /\ sourceBubbles = <<>>

NextArtifacts ==
  \/ BotRenderArtifacts
  \/ AgentReasoningArtifacts

SpecArtifacts == InitArtifacts /\ [][NextArtifacts]_vars


(***************************************************************************)
(* SpecSources: BotBubble draws the source documents of a message.         *)
(***************************************************************************)
SourceStrings ==
  {<<"h","t","t","p","s",":","/","/","a">>, <<"h","t","t","p","s",":","/","/","b">>,
   <<"a",".","p","d","f">>, <<"h","t","t","p","s",":","/","/">>}

SourceItems ==
  {[pageContent |-> p, metadata |-> [source |-> u]] :
     p \in {"p1", "p2"}, u \in SourceStrings}

InitSources ==
  /\ content = TextHi
  /\ renderHTML = "false"
  /\ agentRenderHTML = renderHTML
  /\ sourceDocuments \in SeqUpTo(SourceItems, MaxSources)
  /\ agentName = <<"A">>
  /\ messageRating = ""
  /\ fileAnnotations = <<>>
  /\ localStorage = StorageAbsent
  /\ InstancesNew
  /\ SignalsInit
  /\ ControlsInit
  /\ NoArtifacts

NextSources ==
  \/ BotSourceBubbles

SpecSources == InitSources /\ [][NextSources]_vars

(***************************************************************************)
(* SpecTTS: the TTS button of a BotBubble and the host behind it.          *)
(***************************************************************************)
InitTTS ==
  /\ content \in {TextHi, <<>>}
  /\ renderHTML = "false"
  /\ agentRenderHTML = renderHTML
  /\ sourceDocuments = <<>>
  /\ agentName = <<"A">>
  /\ messageRating = ""
  /\ fileAnnotations = <<>>
  /\ localStorage = StorageAbsent
  /\ InstancesNew
  /\ SignalsInit
  /\ NoArtifacts
  /\ ttsProps \in
       {[id |-> i, messageId |-> m, isTTSEnabled |-> TRUE,
         isTTSLoading |-> NoTTSMap, isTTSPlaying |-> NoTTSMap,
         handleTTSClick |-> h, handleTTSStop |-> h] :
          i \in {"", "i1"}, m \in {"", "m1"}, h \in BOOLEAN}
  /\ lastTTSClick = NoTTSClick
  /\ ttsClicks = 0
  /\ CopyIdle

NextTTS ==
  \/ TTSButtonClick
  \/ HostTTSState

SpecTTS == InitTTS /\ [][NextTTS]_vars

(***************************************************************************)
(* SpecCopy: a BotBubble, its message and its copy button.                 *)
(***************************************************************************)
InitCopy ==
  /\ content \in {<<>>, TextHi, TagHtmlOpen \o TextHi \o ClosingBody \o ClosingHtml,
                   TagHtmlOpen \o TextHi}
  /\ renderHTML \in {"true", "false"}
  /\ agentRenderHTML = renderHTML
  /\ sourceDocuments = <<>>
  /\ agentName = <<"A">>
  /\ messageRating = ""
  /\ fileAnnotations = <<>>
  /\ localStorage = StorageAbsent
  /\ InstancesNew
  /\ SignalsInit
  /\ ControlsInit
  /\ NoArtifacts

NextCopy ==
  \/ BotBubble
  \/ setBotMessageRef
  \/ copyMessageToClipboard
  \/ CopyResponse
  \/ CopyTimerFires

SpecCopy == InitCopy /\ [][NextCopy]_vars

(***************************************************************************)
(* Properties.                                                             *)
(***************************************************************************)
Strategies == {"PlainMarkdown", "CompleteSimpleHTML", "CompleteRichHTML", "IncompleteHTML"}

\* the precedence of the classification, first match wins
Precedence(flag, c) ==
  IF flag = "false" \/ flag = "undefined" THEN "PlainMarkdown"
  ELSE IF ~isFullHTMLDocument(c) THEN "PlainMarkdown"
  ELSE IF isCompleteHTMLDocument(c) /\ needsIframeRendering(c) THEN "CompleteRichHTML"
  ELSE IF isCompleteHTMLDocument(c) THEN "CompleteSimpleHTML"
  ELSE "IncompleteHTML"

\* the surface of the instance has been rendered from the content
Selected(inst) == inst.phase = "mounted" /\ content # <<>>

\* C1: for every content and every value of renderHTML, the branch taken by
\* setBotMessageRef and by onMount is the one the first-match-wins precedence
\* gives; it is one of the four strategies and the same in both components.
C1_FirstMatchPrecedence ==
  /\ Selected(bot) => /\ bot.strategy = Precedence(renderHTML, content)
                      /\ bot.strategy \in Strategies
  /\ Selected(agent) => /\ agent.strategy = Precedence(renderHTML, content)
                        /\ agent.strategy \in Strategies
  /\ Selected(bot) /\ Selected(agent) => bot.strategy = agent.strategy

\* C1 witness: both components have rendered a complete document without
\* isolation markers, reached by the fourth rule of the precedence.
C1_Witness ==
  /\ Selected(bot) /\ Selected(agent)
  /\ bot.strategy = "CompleteSimpleHTML"
  /\ agent.strategy = "CompleteSimpleHTML"

\* content with a script tag and both closing tags
HasScriptAndClosings(c) ==
  includes(c, ScriptMarker) /\ includes(c, ClosingBody) /\ includes(c, ClosingHtml)

\* C4 as stated: every content with '<script', '</body>' and '</html>' is
\* classified CompleteRichHTML.
C4_Original ==
  /\ Selected(bot) /\ HasScriptAndClosings(content)
       => bot.strategy = "CompleteRichHTML"
  /\ Selected(agent) /\ HasScriptAndClosings(content)
       => agent.strategy = "CompleteRichHTML"

\* C4 amended: with renderHTML enabled, every content that starts as a full
\* HTML document and holds '<script', '</body>' and '</html>' is classified
\* CompleteRichHTML, in both components.
C4_ScriptDocumentIsRich ==
  \A inst \in {bot, agent} :
    ( /\ Selected(inst)
      /\ Truthy(renderHTML)
      /\ isFullHTMLDocument(content)
      /\ HasScriptAndClosings(content) )
    => /\ inst.strategy = "CompleteRichHTML"
       /\ inst.iframe.present

\* C4 witness: a full document with a script and both closing tags has been
\* rendered by BotBubble with renderHTML enabled.
C4_Witness ==
  /\ Selected(bot)
  /\ Truthy(renderHTML)
  /\ isFullHTMLDocument(content)
  /\ HasScriptAndClosings(content)
  /\ bot.iframe.present

IsolationMarkers ==
  {ScriptMarker, CanvasMarker, ChartJsLower, ChartJsUpper, D3Marker, PlotlyMarker}

\* content with both closing tags and none of the isolation markers
ClosedWithoutMarkers(c) ==
  /\ includes(c, ClosingBody)
  /\ includes(c, ClosingHtml)
  /\ \A m \in IsolationMarkers : ~includes(c, m)

\* C5 as stated: every content with '</body>' and '</html>' and none of the
\* isolation markers is classified CompleteSimpleHTML.
C5_Original ==
  /\ Selected(bot) /\ ClosedWithoutMarkers(content)
       => bot.strategy = "CompleteSimpleHTML"
  /\ Selected(agent) /\ ClosedWithoutMarkers(content)
       => agent.strategy = "CompleteSimpleHTML"

\* C5 amended: with renderHTML enabled, every content that starts as a full
\* HTML document, holds '</body>' and '</html>' and none of the isolation
\* markers is classified CompleteSimpleHTML and rendered without an iframe.
C5_PlainDocumentIsSimple ==
  \A inst \in {bot, agent} :
    ( /\ Selected(inst)
      /\ Truthy(renderHTML)
      /\ isFullHTMLDocument(content)
      /\ ClosedWithoutMarkers(content) )
    => /\ inst.strategy = "CompleteSimpleHTML"
       /\ ~inst.iframe.present

\* C5 witness: AgentReasoningBubble has rendered a full, closed document
\* without isolation markers with renderHTML enabled.
C5_Witness ==
  /\ Selected(agent)
  /\ Truthy(renderHTML)
  /\ isFullHTMLDocument(content)
  /\ ClosedWithoutMarkers(content)
  /\ agent.el.producer = "body.innerHTML"

\* C3: in the CompleteRichHTML strategy, once the deferred tasks of a render
\* have run (whatever the access to the embedded document gave), the iframe
\* is visible: no execution leaves it at opacity 0.
C3_IframeFinallyVisible ==
  \A inst \in {bot, agent} :
    ( /\ inst.strategy = "CompleteRichHTML"
      /\ inst.writeTask = "done"
      /\ inst.resizeTask # "pending" )
    => inst.iframe.opacity = 1

RawScriptTag == <<"<","s","c","r","i","p","t",">">>

\* C6: with renderHTML enabled, a content that starts as an HTML document
\* and lacks '</body>' or '</html>' is classified IncompleteHTML, and what
\* is written to the surface holds neither '<script>' nor '<html'.
C6_IncompleteShowsNoRawMarkup ==
  \A inst \in {bot, agent} :
    ( /\ Selected(inst)
      /\ Truthy(renderHTML)
      /\ isFullHTMLDocument(content)
      /\ ~isCompleteHTMLDocument(content) )
    => /\ inst.strategy = "IncompleteHTML"
       /\ ~includes(inst.el.text, RawScriptTag)
       /\ ~includes(inst.el.text, HtmlOpen)

\* C7: when both components have drawn the artifacts, every image reference
\* that begins with 'FILE-STORAGE::' has become the upload-file URL of the
\* reference without the prefix, and every other image reference is
\* unchanged, in BotBubble and in AgentReasoningBubble.
C7_ImageReferencesResolved ==
  artifactsDone = {"bot", "agent"} =>
    \A i \in 1..Len(artifacts) :
      IsImage(artifacts[i]) =>
        LET d == artifacts[i].data
            expected == IF startsWith(d, FileStoragePrefix)
                          THEN uploadFileUrl(sliceFrom(d, Len(FileStoragePrefix)))
                          ELSE d
        IN /\ botArtifacts[i].data = expected
           /\ agentArtifacts[i].data = expected

\* the number of occurrences of p in s
CountOccurrences(s, p) == Cardinality({i \in 0..Len(s) : OccursAt(s, p, i)})

\* C8: the document written into the iframe holds no 'GOOGLE_MAP_KEY': each
\* occurrence in the content (with the stylesheet in place) has been replaced
\* by the key, so the document is shorter by the difference of the two
\* lengths for each occurrence, and no new occurrence has been created.
C8_NoPlaceholderWritten ==
  \A inst \in {bot, agent} :
    inst.written # NotWritten =>
      /\ ~includes(inst.written, MapKeyPlaceholder)
      /\ Len(inst.written) =
           Len(injectCss(content))
           - CountOccurrences(injectCss(content), MapKeyPlaceholder)
             * (Len(MapKeyPlaceholder) - Len(MapKeyLiteral))
      /\ CountOccurrences(inst.written, MapKeyLiteral)
           >= CountOccurrences(content, MapKeyPlaceholder)

\* C8 witness: a document with two occurrences of the placeholder has been
\* written into the iframe of BotBubble.
C8_Witness ==
  /\ bot.written # NotWritten
  /\ CountOccurrences(content, MapKeyPlaceholder) = 2
  /\ includes(bot.written, MapKeyLiteral)

\* C9: no exception escapes a render: whatever step fails (markdown parse,
\* DOM parse and its markdown fallback, the document write of the deferred
\* task, text extraction), the render call and its deferred tasks complete
\* without a propagated exception.
C9_NoExceptionEscapes == ~bot.escaped /\ ~agent.escaped

\* C2: once rating is THUMBS_UP or THUMBS_DOWN no step changes it, for any
\* interleaving of clicks and responses.
C2_RatingSetOnce == [][rating # "" => rating' = rating]_vars

uiState ==
  <<rating, feedbackId, showFeedbackContentDialog, thumbsUpColor,
    thumbsDownColor, localStorage>>

\* the handler of the request at position i
HandlerOf(i) ==
  CASE inflight[i].kind = "feedback" -> FeedbackHandler(inflight[i].rating)
    [] inflight[i].kind = "update" -> "submitFeedbackContent"
    [] OTHER -> "downloadFile"

\* C10: a request that is rejected or answered without data leaves rating,
\* feedbackId, the dialog, the thumb colors and local storage as they were
\* and starts no download; a rejection is handled by the handler that
\* awaited it (logged, not propagated), for the thumb handlers, for
\* submitFeedbackContent and for downloadFile.
C10_FailedRequestKeepsState ==
  [][\A i \in 1..Len(inflight), outcome \in {"noData", "reject"} :
       (FeedbackAnswered(i, outcome) \/ UpdateAnswered(i, outcome)
          \/ DownloadAnswered(i, outcome))
       => /\ UNCHANGED uiState
          /\ downloads' = downloads
          /\ unhandled' = unhandled
          /\ outcome = "reject" => HandlerOf(i) \in logged']_vars

\* the deferred tasks of a CompleteRichHTML render have all run
RichSettled(inst) ==
  /\ inst.strategy = "CompleteRichHTML"
  /\ inst.writeTask = "done"
  /\ inst.resizeTask # "pending"

\* C11: in a CompleteRichHTML render resizeIframe runs exactly once: when
\* the deferred tasks of the render have run it has run one time, it never
\* runs a second time, and the height of the iframe is assigned at most once
\* after its reservation.
C11_ResizeExactlyOnce ==
  \A inst \in {bot, agent} :
    /\ inst.resizeRuns <= 1
    /\ inst.iframe.heightSets <= 1
    /\ RichSettled(inst) => inst.resizeRuns = 1

StyleId ==
  <<"f","l","o","w","i","s","e","-","i","f","r","a","m","e","-",
    "o","v","e","r","r","i","d","e">>

\* the 0-based indexes at which p occurs in c
Occurrences(c, p) == {i \in 0..Len(c) : OccursAt(c, p, i)}

Least(S) == CHOOSE x \in S : \A y \in S : x <= y

\* where the stylesheet belongs: before the first '</head>', else after the
\* last '</style>', else after '<head>', else at the start
InsertionPoint(c) ==
  IF Occurrences(c, ClosingHead) # {}
    THEN Least(Occurrences(c, ClosingHead))
  ELSE IF Occurrences(c, ClosingStyle) # {}
    THEN Max(Occurrences(c, ClosingStyle)) + Len(ClosingStyle)
  ELSE IF Occurrences(c, OpeningHead) # {}
    THEN Least(Occurrences(c, OpeningHead)) + Len(OpeningHead)
  ELSE 0

\* C12: the document written into the iframe is the content with the
\* override stylesheet inserted once, at the insertion point given by the
\* priority order; the characters of the content before and after that point
\* are kept in order (up to the rewriting of the maps key that follows), and
\* the style id occurs one more time than in the content.
C12_StylesheetInsertedOnce ==
  \A inst \in {bot, agent} :
    inst.written # NotWritten =>
      LET p == InsertionPoint(content)
          expected == SubSeq(content, 1, p) \o cssOverride
                      \o SubSeq(content, p + 1, Len(content))
      IN /\ inst.written = replaceMapKey(expected)
         /\ CountOccurrences(expected, StyleId)
              = CountOccurrences(content, StyleId) + 1
         /\ ~includes(content, MapKeyPlaceholder) =>
              /\ SubSeq(inst.written, 1, p) = SubSeq(content, 1, p)
              /\ SubSeq(inst.written, p + 1, p + Len(cssOverride)) = cssOverride
              /\ SubSeq(inst.written, p + Len(cssOverride) + 1, Len(inst.written))
                   = SubSeq(content, p + 1, Len(content))

\* C12 witness: a document with two '</style>' and no '</head>' has been
\* written into the iframe of AgentReasoningBubble with the stylesheet in it.
C12_Witness ==
  /\ agent.written # NotWritten
  /\ ~includes(content, ClosingHead)
  /\ CountOccurrences(content, ClosingStyle) = 2
  /\ includes(agent.written, StyleId)

\* C13: in a CompleteRichHTML render the iframe keeps the reserved height
\* 600 and opacity 0 until resizeIframe runs; when resizeIframe succeeds the
\* height is the greatest of the four measured heights and the floor 500,
\* assigned once, and the iframe is visible; the iframe is never visible
\* before resizeIframe has run.
C13_SizingProtocol ==
  \A inst \in {bot, agent} :
    inst.iframe.present =>
      /\ inst.resizeRuns = 0 =>
           /\ inst.iframe.height = 600
           /\ inst.iframe.opacity = 0
           /\ inst.iframe.heightSets = 0
      /\ inst.measure.access = "ok" =>
           LET candidates == inst.measure.heights \cup {500}
           IN /\ inst.iframe.height \in candidates
              /\ \A h \in candidates : h <= inst.iframe.height
              /\ inst.iframe.height >= MinHeight
              /\ inst.iframe.heightSets = 1
              /\ inst.iframe.opacity = 1
      /\ inst.iframe.opacity = 1 => inst.resizeRuns = 1

\* C13 witness: resizeIframe of BotBubble succeeded on a document taller
\* than the floor and the iframe is visible at that height.
C13_Witness ==
  /\ bot.measure.access = "ok"
  /\ bot.measure.heights = {0, 640}
  /\ bot.iframe.height = 640
  /\ bot.iframe.opacity = 1

\* the header AgentReasoningBubble puts before the markup of the body
AgentHeader == AgentPrefixOpen \o agentName \o AgentPrefixHtml

\* the outer tags of a document
OuterMarkup == {HtmlOpen, <<"<","h","e","a","d">>, <<"<","b","o","d","y">>,
                ClosingHead, ClosingBody, ClosingHtml}

\* C14: in the CompleteSimpleHTML strategy, when the document parses, the
\* markup injected into the surface is the inner content of the parsed body
\* and nothing else (after the header of the agent's name in
\* AgentReasoningBubble), also when the body is empty, and it holds none of
\* the outer html, head and body tags.
C14_OnlyBodyInjected ==
  /\ ( Selected(bot) /\ bot.strategy = "CompleteSimpleHTML" /\ bot.faults = {} )
       => /\ bot.el.text = bodyInnerHTML(content)
          /\ \A t \in OuterMarkup : ~includes(bot.el.text, t)
  /\ ( Selected(agent) /\ agent.strategy = "CompleteSimpleHTML" /\ agent.faults = {} )
       => /\ agent.el.text = AgentHeader \o bodyInnerHTML(content)
          /\ \A t \in OuterMarkup : ~includes(agent.el.text, t)

\* C15: in the CompleteSimpleHTML strategy, when parsing the document
\* fails, the surface holds what the PlainMarkdown strategy gives for the
\* same content (the markdown parse of it with the decoration of that
\* strategy), a warning has been logged and nothing has been thrown.
C15_ParseFailureFallsBack ==
  /\ ( Selected(bot) /\ bot.strategy = "CompleteSimpleHTML"
        /\ "DOMParser" \in bot.faults )
       => /\ bot.warned
          /\ ~bot.escaped
          /\ bot.el = MarkedEl(content, BotMarkdownDecor)
  /\ ( Selected(agent) /\ agent.strategy = "CompleteSimpleHTML"
        /\ "DOMParser" \in agent.faults )
       => /\ agent.warned
          /\ ~agent.escaped
          /\ agent.el = MarkedEl(AgentPrefixOpen \o agentName
                                 \o AgentPrefixMarkdown \o content, AgentDecor)

\* what extractTextFromIncompleteHTML is to return for content c when the
\* parser raised or not: the text of the body without the whitespace at its
\* two ends, then ' ' and the hourglass; the placeholder when no character
\* of the text is other than whitespace, or when the parser raised
ExpectedExtract(c, raised) ==
  LET bodyText == bodyTextContent(c)
      Visible == {i \in 1..Len(bodyText) : bodyText[i] \notin WhiteSpace}
  IN IF raised \/ Visible = {}
       THEN LoadingPlaceholder
       ELSE SubSeq(bodyText, Least(Visible), Max(Visible)) \o <<" ", "{hourglass}">>

\* C16: in the IncompleteHTML strategy the text handed to the surface is the
\* trimmed text of the parsed body followed by the loading glyph when that
\* text is not empty, and 'Loading content...' with the glyph otherwise and
\* when the parser raised; the parser's exception does not leave the call.
C16_ExtractedTextOrPlaceholder ==
  /\ ( Selected(bot) /\ bot.strategy = "IncompleteHTML" )
       => /\ bot.el.text = ExpectedExtract(content, "DOMParser" \in bot.faults)
          /\ bot.el.text[Len(bot.el.text)] = "{hourglass}"
          /\ bot.el.text[1] \notin WhiteSpace
          /\ ~bot.escaped
  /\ ( Selected(agent) /\ agent.strategy = "IncompleteHTML" )
       => /\ agent.el.text
               = AgentHeader \o ExpectedExtract(content, "DOMParser" \in agent.faults)
          /\ ~agent.escaped

\* C16 witness: BotBubble shows the text of a partial document whose body
\* text had whitespace at an end, and AgentReasoningBubble, whose parser
\* raised on the same document, shows the placeholder.
C16_Witness ==
  /\ Selected(bot) /\ bot.strategy = "IncompleteHTML" /\ bot.faults = {}
  /\ trim(bodyTextContent(content)) # <<>>
  /\ trim(bodyTextContent(content)) # bodyTextContent(content)
  /\ bot.el.text # LoadingPlaceholder
  /\ Selected(agent) /\ agent.strategy = "IncompleteHTML"
  /\ "DOMParser" \in agent.faults
  /\ agent.el.text = AgentHeader \o LoadingPlaceholder

\* the sanitize setting an instance's own renderHTML flag asks for
OwnSanitize(flag) == IF flag = "true" THEN "false" ELSE "true"

\* C17: whatever the flags of the two instances and the order in which they
\* are created and rendered, each instance's markdown parse runs with the
\* sanitize setting of its own flag: enabled exactly when its renderHTML is
\* false or undefined.
C17_OwnSanitizeSetting ==
  /\ bot.sanitizeUsed # "none" => bot.sanitizeUsed = OwnSanitize(renderHTML)
  /\ agent.sanitizeUsed # "none" => agent.sanitizeUsed = OwnSanitize(agentRenderHTML)

\* C18: in a CompleteRichHTML render the iframe is on the surface before
\* anything is written into it; the synchronous part of the render writes
\* nothing (the write belongs to the zero-delay task); the resize task exists
\* only once the write has completed, so resizeIframe has never run on an
\* iframe whose content was not written.
C18_AppendWriteResizeOrder ==
  \A inst \in {bot, agent} :
    /\ inst.written # NotWritten =>
         /\ inst.iframe.present
         /\ inst.el.via = "appendChild" /\ inst.el.producer = "iframe"
         /\ inst.writeTask = "done"
    /\ inst.writeTask = "pending" =>
         /\ inst.iframe.present
         /\ inst.written = NotWritten
         /\ inst.resizeTask = "none"
    /\ inst.resizeTask # "none" => inst.written # NotWritten
    /\ inst.resizeRuns > 0 => inst.written # NotWritten

\* C18 witness: AgentReasoningBubble's resizeIframe has run, after the write
\* of its document.
C18_Witness ==
  /\ agent.strategy = "CompleteRichHTML"
  /\ agent.written # NotWritten
  /\ agent.resizeTask = "done"
  /\ agent.resizeRuns = 1

\* the positions of the stored messages with the current messageId
StoredHere == {i \in 1..Len(localStorage.chatHistory) :
                 localStorage.chatHistory[i].messageId = messageId}

\* the stored value differs from the one before at most in the rating of
\* the message at position k
OnlyRatingAt(k) ==
  /\ localStorage'.state = localStorage.state
  /\ localStorage'.chatId = localStorage.chatId
  /\ Len(localStorage'.chatHistory) = Len(localStorage.chatHistory)
  /\ \A j \in 1..Len(localStorage.chatHistory) :
       /\ localStorage'.chatHistory[j].messageId = localStorage.chatHistory[j].messageId
       /\ localStorage'.chatHistory[j].message = localStorage.chatHistory[j].message
       /\ j # k => localStorage'.chatHistory[j].rating = localStorage.chatHistory[j].rating

\* C19: a step changes what is stored under the key only when the key holds
\* parseable chat details with a message of the current messageId, and then
\* only the rating of that message; when a feedback response with data sets
\* the rating, that message's stored rating becomes the new rating; in every
\* other case the stored value stays as it was, and nothing is thrown.
C19_StorageOnlyRatingOfMessage ==
  [][ /\ ( localStorage.state # "parsed" \/ StoredHere = {} )
           => localStorage' = localStorage
      /\ ( localStorage.state = "parsed" /\ StoredHere # {} )
           => /\ OnlyRatingAt(Least(StoredHere))
              /\ ( Len(inflight') < Len(inflight) /\ showFeedbackContentDialog'
                    /\ feedbackId' # feedbackId )
                   => localStorage'.chatHistory[Least(StoredHere)].rating = rating'
      /\ localStorage' # localStorage => unhandled' = unhandled ]_vars

\* C19 witness: the stored history holds another message and the current
\* one, and the current one has been rated THUMBS_DOWN in storage.
C19_Witness ==
  /\ localStorage.state = "parsed"
  /\ Len(localStorage.chatHistory) = 2
  /\ localStorage.chatHistory[1].messageId = "m0"
  /\ localStorage.chatHistory[1].rating = ""
  /\ localStorage.chatHistory[2].messageId = messageId
  /\ localStorage.chatHistory[2].rating = "THUMBS_DOWN"
  /\ rating = "THUMBS_DOWN"

\* the positions removeDuplicateURL is to keep: every source whose
\* metadata.source is not a valid URL, and of the sources with a valid URL
\* the first one with that URL
KeptPositions(docs) ==
  {i \in 1..Len(docs) :
     \/ ~isValidURL(docs[i].metadata.source)
     \/ \A j \in 1..(i - 1) : docs[j].metadata.source # docs[i].metadata.source}

\* the sources of docs at the positions of K, in their order
RECURSIVE SourcesAt(_, _)
SourcesAt(docs, K) ==
  IF K = {} THEN <<>>
  ELSE <<docs[Least(K)]>> \o SourcesAt(docs, K \ {Least(K)})

\* C20: the sources BotBubble draws are the sources of the message in their
\* order, with every source that has no valid URL kept and, for each valid
\* URL, the first source with it kept and the later ones dropped; the
\* message's list of sources stays as it was.
C20_FirstOfEachURLKept ==
  /\ []( "sources" \in artifactsDone
           => sourceBubbles = SourcesAt(sourceDocuments, KeptPositions(sourceDocuments)) )
  /\ [][sourceDocuments' = sourceDocuments]_vars

\* C20 witness: of three sources, two had the same valid URL and one had
\* none: the drawn list holds two, one with a valid URL and one without.
C20_Witness ==
  /\ "sources" \in artifactsDone
  /\ Len(sourceDocuments) = 3
  /\ Len(sourceBubbles) = 2
  /\ \E i \in 1..2 : ~isValidURL(sourceBubbles[i].metadata.source)
  /\ \E i \in 1..2 : isValidURL(sourceBubbles[i].metadata.source)

\* C21: when the message carries a rating, the bubble on screen has its
\* rating set to it, and no feedback request is ever sent, feedbackId stays
\* empty and the dialog stays closed.
C21_RatedMessageStaysRated ==
  ( Rendered /\ messageRating # "" )
    => /\ rating = messageRating
       /\ feedbackId = ""
       /\ ~showFeedbackContentDialog
       /\ \A i \in 1..Len(inflight) : inflight[i].kind # "feedback"

\* the step answers the request at position i, of the given kind
Answers(i, kind) ==
  /\ i \in 1..Len(inflight)
  /\ inflight[i].kind = kind
  /\ inflight' = SubSeq(inflight, 1, i - 1) \o SubSeq(inflight, i + 1, Len(inflight))

\* C22: the dialog opens only in a step that answers a vote and sets the
\* rating to that vote (and feedbackId with it); an answer to
\* submitFeedbackContent with data clears feedbackId and closes the dialog,
\* one without data leaves both as they were; and whenever the dialog is
\* open the rating is not empty.
C22_DialogLifecycle ==
  /\ [](showFeedbackContentDialog => rating \in {"THUMBS_UP", "THUMBS_DOWN"})
  /\ [][ ( ~showFeedbackContentDialog /\ showFeedbackContentDialog' )
           => \E i \in 1..Len(inflight) :
                /\ Answers(i, "feedback")
                /\ rating' = inflight[i].rating
                /\ feedbackId' \in {"", "fb1"} ]_vars
  /\ [][ \A i \in 1..Len(inflight) :
           /\ ( UpdateAnswered(i, "data") \/ UpdateAnswered(i, "dataNoId") )
                => feedbackId' = "" /\ ~showFeedbackContentDialog'
           /\ UpdateAnswered(i, "noData")
                => UNCHANGED <<feedbackId, showFeedbackContentDialog>>
           /\ Answers(i, "update")
                => \/ feedbackId' = "" /\ ~showFeedbackContentDialog'
                   \/ UNCHANGED <<feedbackId, showFeedbackContentDialog>> ]_vars

\* C22 witness: a thumbs-down vote has been answered with data: the dialog
\* is open, the rating and the id of the feedback are set.
C22_Witness ==
  /\ showFeedbackContentDialog
  /\ rating = "THUMBS_DOWN"
  /\ feedbackId = "fb1"
  /\ \E i \in 1..Len(inflight) : inflight[i].kind = "update"

\* C23: with the rating empty both thumb buttons are shown and enabled;
\* with THUMBS_UP only the thumbs-up button is shown, disabled; with
\* THUMBS_DOWN only the thumbs-down button is shown, disabled; so no enabled
\* thumb button is shown while the rating is not empty.
C23_ThumbViewFollowsRating ==
  /\ rating \in {"", "THUMBS_UP", "THUMBS_DOWN"}
  /\ rating = "" => /\ thumbsUpShown /\ ~thumbsUpDisabled
                    /\ thumbsDownShown /\ ~thumbsDownDisabled
  /\ rating = "THUMBS_UP" => /\ thumbsUpShown /\ thumbsUpDisabled
                             /\ ~thumbsDownShown
  /\ rating = "THUMBS_DOWN" => /\ thumbsDownShown /\ thumbsDownDisabled
                               /\ ~thumbsUpShown
  /\ rating # "" => /\ ~(thumbsUpShown /\ ~thumbsUpDisabled)
                    /\ ~(thumbsDownShown /\ ~thumbsDownDisabled)

\* C23 witness: after a thumbs-up vote was answered, only the thumbs-up
\* button is on screen and it is disabled.
C23_Witness ==
  /\ Rendered
  /\ messageRating = ""
  /\ rating = "THUMBS_UP"
  /\ thumbsUpShown /\ thumbsUpDisabled
  /\ ~thumbsDownShown

\* C24: a click on the TTS button makes at most one call into the host:
\* none when the message has neither id nor messageId, none while the host
\* has the message loading, handleTTSStop with the id when the host has it
\* playing, handleTTSClick with the id and the message text otherwise; never
\* a start while loading, never a start together with a stop.
C24_OneHostCallPerClick ==
  lastTTSClick.clicked =>
    LET p == lastTTSClick.props
        calls == lastTTSClick.calls
        id == IF p.id = "" THEN p.messageId ELSE p.id
        loading == p.isTTSLoading.given /\ id \in p.isTTSLoading.on
        playing == p.isTTSPlaying.given /\ id \in p.isTTSPlaying.on
        Called(fn) == \E i \in 1..Len(calls) : calls[i].fn = fn
    IN /\ Len(calls) <= 1
       /\ ( p.id = "" /\ p.messageId = "" ) => calls = <<>>
       /\ loading => calls = <<>>
       /\ ~(Called("handleTTSClick") /\ Called("handleTTSStop"))
       /\ ( id # "" /\ ~loading /\ playing )
            => calls = IF p.handleTTSStop
                         THEN <<[fn |-> "handleTTSStop", messageId |-> id, text |-> <<>>]>>
                         ELSE <<>>
       /\ ( id # "" /\ ~loading /\ ~playing )
            => calls = IF p.handleTTSClick
                         THEN <<[fn |-> "handleTTSClick", messageId |-> id,
                                 text |-> lastTTSClick.text]>>
                         ELSE <<>>

\* C24 witness: the second click on the button came while the host had the
\* message both loading and playing, and it made no call.
C24_Witness ==
  /\ lastTTSClick.clicked
  /\ ttsClicks = 2
  /\ lastTTSClick.props.id = "i1"
  /\ lastTTSClick.props.messageId = "m1"
  /\ lastTTSClick.props.handleTTSClick
  /\ "i1" \in lastTTSClick.props.isTTSLoading.on
  /\ "i1" \in lastTTSClick.props.isTTSPlaying.on
  /\ lastTTSClick.calls = <<>>

\* C25: while the timer armed by the most recent successful copy has not
\* fired (timers fire in the order they were armed, so while any timer is
\* armed), 'Copied!' is shown; a successful copy sets the flag; a failed
\* clipboard write leaves it as it was.
C25_CopiedUntilLastTimer ==
  /\ [](copyTimers > 0 => copiedMessage)
  /\ [][ /\ copyTimers' > copyTimers => copiedMessage'
         /\ ( Len(copyWrites') < Len(copyWrites) /\ copyTimers' = copyTimers )
              => copiedMessage' = copiedMessage ]_vars

=============================================================================
